---- MODULE Spec2Model ----
(***************************************************************************)
(* GNSS reader: scalar coercion (ParseFloatVariant, ToInt8, ToInt32,      *)
(* ToUint8), the D-Bus reply decoder getGnssData, and the ticker/select    *)
(* loop of main with its signal-driven shutdown.                           *)
(*                                                                         *)
(* A dynamically typed value (Go `any`, dbus.Variant) is a record          *)
(* [type |-> t, v |-> payload].  For the integer types the payload is the  *)
(* value's little-endian two's-complement byte sequence at the type's own  *)
(* width (1, 2, 4 or 8 bytes; int and uint are 64-bit on the arm64/amd64   *)
(* targets the image is built for), so that narrowing is truncation of     *)
(* real bits.  float64 payloads are decimals [k, m, e] (m * 10^e), NaN or  *)
(* Inf; strings are sequences of one-character strings; []any is a         *)
(* sequence of values and [][]any a sequence of such sequences.            *)
(***************************************************************************)
EXTENDS Integers, Sequences, FiniteSets, TLC

VARIABLES
    pc,            \* position of the main goroutine
    sigpc,         \* position of the signal-handling goroutine
    sigChan,       \* number of signals buffered in sigChan (capacity 1)
    cancelled,     \* ctx.Done() is closed
    tickerC,       \* number of ticks buffered in ticker.C (capacity 1)
    result,        \* the reply map stored by obj.Call(...).Store(&result)
    data,          \* `data` of the loop body / of getGnssData
    lastLog,       \* the last line the loop logged
    failLogs,      \* failure lines logged since the current tick began
    dbusCalls,     \* GetGnss calls made since the current tick began
    publishCalls,  \* client.Publish calls made since the current tick began
    disconnects,   \* client.Disconnect calls made
    cin,           \* input handed to the four converters
    cout           \* what the four converters returned for cin

vars == <<pc, sigpc, sigChan, cancelled, tickerC, result, data, lastLog,
          failLogs, dbusCalls, publishCalls, disconnects, cin, cout>>

---------------------------------------------------------------------------
(* Bounds of the model *)

\* sampled integers lie within SampleSpan of a width boundary
SampleSpan == 1
\* longest source sequence handed to the decoder beyond MaxSatelliteCount
ExtraLen == 1

---------------------------------------------------------------------------
(* Integer representation and Go's integer conversions *)

MaxSatelliteCount == 12

Min(a, b) == IF a < b THEN a ELSE b

Width(t) ==
    CASE t \in {"int8", "uint8"} -> 1
      [] t \in {"int16", "uint16"} -> 2
      [] t \in {"int32", "uint32"} -> 4
      [] t \in {"int64", "uint64", "int", "uint"} -> 8

IsSigned(t) == t \in {"int8", "int16", "int32", "int64", "int"}

\* the k low bytes of the two's-complement representation of n
RECURSIVE Enc(_, _)
Enc(n, k) == IF k = 0 THEN <<>> ELSE <<n % 256>> \o Enc(n \div 256, k - 1)

\* a value of integer type t holding n
MkInt(t, n) == [type |-> t, v |-> Enc(n, Width(t))]

\* bytes read as an unsigned number (at most 3 bytes are ever read this way)
RECURSIVE DecU(_)
DecU(b) == IF b = <<>> THEN 0 ELSE Head(b) + 256 * DecU(Tail(b))

\* bytes read as a two's-complement signed number (at most 4 bytes)
RECURSIVE DecS(_)
DecS(b) ==
    IF Len(b) = 1
    THEN IF b[1] >= 128 THEN b[1] - 256 ELSE b[1]
    ELSE Head(b) + 256 * DecS(Tail(b))

\* sign- or zero-extension of a value's bytes to 8 bytes
Extend(val) ==
    LET b == val.v
        fill == IF IsSigned(val.type) /\ b[Len(b)] >= 128 THEN 255 ELSE 0
    IN  b \o [i \in 1..(8 - Len(b)) |-> fill]

\* a conversion that clamps to the target's range instead of truncating
GoConvert_Saturate(val, target) ==
    LET ext == Extend(val)
        w == Width(target)
        lo == SubSeq(ext, 1, w)
        hi == SubSeq(ext, w + 1, 8)
        neg == IsSigned(val.type) /\ ext[8] >= 128
        fits == IF IsSigned(target)
                THEN \/ (\A i \in 1..Len(hi) : hi[i] = 0) /\ lo[w] < 128
                     \/ (\A i \in 1..Len(hi) : hi[i] = 255) /\ lo[w] >= 128 /\ neg
                ELSE (\A i \in 1..Len(hi) : hi[i] = 0)
    IN  IF fits
        THEN IF IsSigned(target) THEN DecS(lo) ELSE DecU(lo)
        ELSE IF neg
             THEN IF IsSigned(target) THEN DecS([i \in 1..w |-> IF i = w THEN 128 ELSE 0]) ELSE 0
             ELSE IF IsSigned(target)
                  THEN DecS([i \in 1..w |-> IF i = w THEN 127 ELSE 255])
                  ELSE DecU([i \in 1..w |-> 255])

\* Go's T(v) between integer types: extend to infinite precision by the
\* source's signedness, truncate to the target's width, read in the target
GoConvert(val, target) ==
    LET lo == SubSeq(Extend(val), 1, Width(target))
    IN  IF IsSigned(target) THEN DecS(lo) ELSE DecU(lo)

---------------------------------------------------------------------------
(* float64 values and strconv.ParseFloat on decimal strings *)

NaN == [k |-> "nan", m |-> 0, e |-> 0]
PosInf == [k |-> "inf", m |-> 1, e |-> 0]
NegInf == [k |-> "inf", m |-> -1, e |-> 0]
FloatZero == [k |-> "fin", m |-> 0, e |-> 0]

\* the decimal m * 10^e in normal form (no trailing zero in m)
RECURSIVE Norm(_, _)
Norm(m, e) ==
    IF m = 0 THEN FloatZero
    ELSE IF m % 10 = 0 THEN Norm(m \div 10, e + 1)
    ELSE [k |-> "fin", m |-> m, e |-> e]

IsFinite(f) == f.k = "fin"

Digit(c) ==
    CASE c = "0" -> 0 [] c = "1" -> 1 [] c = "2" -> 2 [] c = "3" -> 3
      [] c = "4" -> 4 [] c = "5" -> 5 [] c = "6" -> 6 [] c = "7" -> 7
      [] c = "8" -> 8 [] c = "9" -> 9 [] OTHER -> -1

LowerChar(c) ==
    CASE c = "N" -> "n" [] c = "A" -> "a" [] c = "I" -> "i" [] c = "F" -> "f"
      [] OTHER -> c

Lower(s) == [i \in 1..Len(s) |-> LowerChar(s[i])]

\* digits with at most one point, at least one digit, nothing else
RECURSIVE ScanDecimal(_, _, _, _, _, _)
ScanDecimal(s, i, m, e, dot, nd) ==
    IF i > Len(s) THEN [ok |-> nd > 0, m |-> m, e |-> e]
    ELSE IF s[i] = "."
         THEN IF dot THEN [ok |-> FALSE, m |-> 0, e |-> 0]
              ELSE ScanDecimal(s, i + 1, m, e, TRUE, nd)
    ELSE IF Digit(s[i]) >= 0
         THEN ScanDecimal(s, i + 1, 10 * m + Digit(s[i]),
                          IF dot THEN e - 1 ELSE e, dot, nd + 1)
    ELSE [ok |-> FALSE, m |-> 0, e |-> 0]

\* strconv.ParseFloat(s, 64) on strings without exponent, hex or underscore
ParseFloat(s) ==
    LET signed == Len(s) > 0 /\ s[1] \in {"+", "-"}
        neg == Len(s) > 0 /\ s[1] = "-"
        body == IF signed THEN Tail(s) ELSE s
        r == ScanDecimal(body, 1, 0, 0, FALSE, 0)
    IN  IF Lower(s) = <<"n", "a", "n">> THEN [val |-> NaN, err |-> FALSE]
        ELSE IF Lower(body) = <<"i", "n", "f">>
             THEN [val |-> IF neg THEN NegInf ELSE PosInf, err |-> FALSE]
        ELSE IF r.ok
             THEN [val |-> Norm(IF neg THEN 0 - r.m ELSE r.m, r.e), err |-> FALSE]
        ELSE [val |-> FloatZero, err |-> TRUE]

---------------------------------------------------------------------------
(* The scalar coercion functions *)

\* a default branch that returns 0 with a nil error, like the integer converters
ParseFloatVariant_DefaultNoError(v) ==
    IF v.type = "float64" THEN [val |-> v.v, err |-> FALSE]
    ELSE IF v.type = "string" THEN ParseFloat(v.v)
    ELSE IF v.type = "int32" THEN [val |-> Norm(DecS(v.v), 0), err |-> FALSE]
    ELSE [val |-> FloatZero, err |-> FALSE]

ParseFloatVariant(v) ==
    IF v.type = "float64" THEN [val |-> v.v, err |-> FALSE]
    ELSE IF v.type = "string" THEN ParseFloat(v.v)
    ELSE IF v.type = "int32" THEN [val |-> Norm(DecS(v.v), 0), err |-> FALSE]
    ELSE [val |-> FloatZero, err |-> TRUE]

ToInt8(val) ==
    IF val.type = "int8" THEN DecS(val.v)
    ELSE IF val.type = "uint8" THEN GoConvert(val, "int8")
    ELSE IF val.type = "int32" THEN GoConvert(val, "int8")
    ELSE IF val.type = "uint32" THEN GoConvert(val, "int8")
    ELSE IF val.type = "int" THEN GoConvert(val, "int8")
    ELSE IF val.type = "uint" THEN GoConvert(val, "int8")
    ELSE 0

ToInt32(val) ==
    IF val.type = "int8" THEN GoConvert(val, "int32")
    ELSE IF val.type = "uint8" THEN GoConvert(val, "int32")
    ELSE IF val.type = "int32" THEN DecS(val.v)
    ELSE IF val.type = "uint32" THEN GoConvert(val, "int32")
    ELSE IF val.type = "int" THEN GoConvert(val, "int32")
    ELSE IF val.type = "uint" THEN GoConvert(val, "int32")
    ELSE 0

ToUint8(val) ==
    IF val.type = "int8" THEN GoConvert(val, "uint8")
    ELSE IF val.type = "uint8" THEN DecU(val.v)
    ELSE IF val.type = "int32" THEN GoConvert(val, "uint8")
    ELSE IF val.type = "uint32" THEN GoConvert(val, "uint8")
    ELSE IF val.type = "int" THEN GoConvert(val, "uint8")
    ELSE IF val.type = "uint" THEN GoConvert(val, "uint8")
    ELSE 0

---------------------------------------------------------------------------
(* getGnssData: the reply map decoded into GnssFullData *)

ZeroUint64 == <<0, 0, 0, 0, 0, 0, 0, 0>>

NmeaSatelliteMsg == [Num |-> 0, Eledeg |-> 0, Azideg |-> 0, SN |-> 0]

BeidouNmeaSatelliteMsg ==
    [BeidouNum |-> 0, BeidouEledeg |-> 0, BeidouAzideg |-> 0, BeidouSN |-> 0]

NmeaUtcTime == [Year |-> 0, Month |-> 0, Date |-> 0, Hour |-> 0, Min |-> 0, Sec |-> 0]

\* GnssFullData{}: Go index i of an array is index i + 1 here
GnssFullData ==
    [Valid |-> 0, LastLockTimeMs |-> ZeroUint64, Svnum |-> 0, BeidouSvnum |-> 0,
     NSHemi |-> <<>>, EWHemi |-> <<>>, Latitude |-> FloatZero,
     Longitude |-> FloatZero, Gpssta |-> 0, Posslnum |-> 0, Fixmode |-> 0,
     Pdop |-> FloatZero, Hdop |-> FloatZero, Vdop |-> FloatZero,
     Altitude |-> FloatZero, Speed |-> FloatZero, Utc |-> NmeaUtcTime,
     Slmsg |-> [i \in 1..MaxSatelliteCount |-> NmeaSatelliteMsg],
     BeidouSlmsg |-> [i \in 1..MaxSatelliteCount |-> BeidouNmeaSatelliteMsg],
     Possl |-> [i \in 1..MaxSatelliteCount |-> 0]]

\* what an array holds once a store outside its bounds has panicked
IndexPanic == <<"panic: index out of range">>

\* arr[i] = x with Go's bounds check
ArrayStore(arr, i, x) ==
    IF arr # IndexPanic /\ i >= 0 /\ i < Len(arr)
    THEN [arr EXCEPT ![i + 1] = x]
    ELSE IndexPanic

\* x, _ = v.Value().(T): the value when its dynamic type is T, else T's zero
AssertInt32(v) == IF v.type = "int32" THEN DecS(v.v) ELSE 0
AssertUint64(v) == IF v.type = "uint64" THEN v.v ELSE ZeroUint64
AssertUint8(v) == IF v.type = "uint8" THEN DecU(v.v) ELSE 0
AssertString(v) == IF v.type = "string" THEN v.v ELSE <<>>

\* x, _ = ParseFloatVariant(v): the error is dropped
FloatField(v) == ParseFloatVariant(v).val

\* a decoder that fills as many Utc fields as the sequence has elements
DecodeUtc_Partial(res) ==
    IF "utc" \in DOMAIN res /\ res["utc"].type = "[]any" /\ Len(res["utc"].v) >= 1
    THEN LET utcArr == res["utc"].v
             n == Len(utcArr)
         IN  [Year |-> ToInt32(utcArr[1]),
              Month |-> IF n >= 2 THEN ToInt8(utcArr[2]) ELSE 0,
              Date |-> IF n >= 3 THEN ToInt8(utcArr[3]) ELSE 0,
              Hour |-> IF n >= 4 THEN ToInt8(utcArr[4]) ELSE 0,
              Min |-> IF n >= 5 THEN ToInt8(utcArr[5]) ELSE 0,
              Sec |-> IF n >= 6 THEN ToInt8(utcArr[6]) ELSE 0]
    ELSE NmeaUtcTime

DecodeUtc(res) ==
    IF "utc" \in DOMAIN res /\ res["utc"].type = "[]any" /\ Len(res["utc"].v) = 6
    THEN LET utcArr == res["utc"].v
         IN  [Year |-> ToInt32(utcArr[1]), Month |-> ToInt8(utcArr[2]),
              Date |-> ToInt8(utcArr[3]), Hour |-> ToInt8(utcArr[4]),
              Min |-> ToInt8(utcArr[5]), Sec |-> ToInt8(utcArr[6])]
    ELSE NmeaUtcTime

SatelliteMsg(row) ==
    [Num |-> ToInt8(row[1]), Eledeg |-> ToInt8(row[2]),
     Azideg |-> ToInt32(row[3]), SN |-> ToInt8(row[4])]

BeidouSatelliteMsg(row) ==
    [BeidouNum |-> ToInt8(row[1]), BeidouEledeg |-> ToInt8(row[2]),
     BeidouAzideg |-> ToInt32(row[3]), BeidouSN |-> ToInt8(row[4])]

\* a loop that drops the i < MaxSatelliteCount half of its condition
RECURSIVE SlmsgLoop_NoClamp(_, _, _)
SlmsgLoop_NoClamp(arr, i, slots) ==
    IF i < Len(arr)
    THEN SlmsgLoop_NoClamp(arr, i + 1,
             IF Len(arr[i + 1]) = 4
             THEN ArrayStore(slots, i, SatelliteMsg(arr[i + 1]))
             ELSE slots)
    ELSE slots

\* a loop that stores valid entries compactly instead of at their own index
RECURSIVE SlmsgLoop_Compact(_, _, _, _)
SlmsgLoop_Compact(arr, i, n, slots) ==
    IF i < Len(arr) /\ i < MaxSatelliteCount
    THEN IF Len(arr[i + 1]) = 4
         THEN SlmsgLoop_Compact(arr, i + 1, n + 1,
                                ArrayStore(slots, n, SatelliteMsg(arr[i + 1])))
         ELSE SlmsgLoop_Compact(arr, i + 1, n, slots)
    ELSE slots

\* for i := 0; i < len(arr) && i < MaxSatelliteCount; i++ { ... data.Slmsg[i] ... }
RECURSIVE SlmsgLoop(_, _, _)
SlmsgLoop(arr, i, slots) ==
    IF i < Len(arr) /\ i < MaxSatelliteCount
    THEN SlmsgLoop(arr, i + 1,
             IF Len(arr[i + 1]) = 4
             THEN ArrayStore(slots, i, SatelliteMsg(arr[i + 1]))
             ELSE slots)
    ELSE slots

RECURSIVE BeidouSlmsgLoop(_, _, _)
BeidouSlmsgLoop(arr, i, slots) ==
    IF i < Len(arr) /\ i < MaxSatelliteCount
    THEN BeidouSlmsgLoop(arr, i + 1,
             IF Len(arr[i + 1]) = 4
             THEN ArrayStore(slots, i, BeidouSatelliteMsg(arr[i + 1]))
             ELSE slots)
    ELSE slots

RECURSIVE PosslLoop(_, _, _)
PosslLoop(arr, i, slots) ==
    IF i < Len(arr) /\ i < MaxSatelliteCount
    THEN PosslLoop(arr, i + 1, ArrayStore(slots, i, ToUint8(arr[i + 1])))
    ELSE slots

\* DecodeSlmsg over the loop without the clamp
DecodeSlmsg_NoClamp(res) ==
    IF "slmsg" \in DOMAIN res /\ res["slmsg"].type = "[][]any"
    THEN SlmsgLoop_NoClamp(res["slmsg"].v, 0, GnssFullData.Slmsg)
    ELSE GnssFullData.Slmsg

\* DecodeSlmsg over the compacting loop
DecodeSlmsg_Compact(res) ==
    IF "slmsg" \in DOMAIN res /\ res["slmsg"].type = "[][]any"
    THEN SlmsgLoop_Compact(res["slmsg"].v, 0, 0, GnssFullData.Slmsg)
    ELSE GnssFullData.Slmsg

DecodeSlmsg(res) ==
    IF "slmsg" \in DOMAIN res /\ res["slmsg"].type = "[][]any"
    THEN SlmsgLoop(res["slmsg"].v, 0, GnssFullData.Slmsg)
    ELSE GnssFullData.Slmsg

DecodeBeidouSlmsg(res) ==
    IF "beidou_slmsg" \in DOMAIN res /\ res["beidou_slmsg"].type = "[][]any"
    THEN BeidouSlmsgLoop(res["beidou_slmsg"].v, 0, GnssFullData.BeidouSlmsg)
    ELSE GnssFullData.BeidouSlmsg

DecodePossl(res) ==
    IF "possl" \in DOMAIN res /\ res["possl"].type = "[]any"
    THEN PosslLoop(res["possl"].v, 0, GnssFullData.Possl)
    ELSE GnssFullData.Possl

\* the body of getGnssData after the call has stored its reply in `result`
DecodeReply(res) ==
    [Valid |-> IF "valid" \in DOMAIN res THEN AssertInt32(res["valid"]) ELSE 0,
     LastLockTimeMs |-> IF "last_lock_time_ms" \in DOMAIN res
                        THEN AssertUint64(res["last_lock_time_ms"]) ELSE ZeroUint64,
     Svnum |-> IF "svnum" \in DOMAIN res THEN AssertUint8(res["svnum"]) ELSE 0,
     BeidouSvnum |-> IF "beidou_svnum" \in DOMAIN res
                     THEN AssertUint8(res["beidou_svnum"]) ELSE 0,
     NSHemi |-> IF "nshemi" \in DOMAIN res THEN AssertString(res["nshemi"]) ELSE <<>>,
     EWHemi |-> IF "ewhemi" \in DOMAIN res THEN AssertString(res["ewhemi"]) ELSE <<>>,
     Latitude |-> IF "latitude" \in DOMAIN res THEN FloatField(res["latitude"]) ELSE FloatZero,
     Longitude |-> IF "longitude" \in DOMAIN res THEN FloatField(res["longitude"]) ELSE FloatZero,
     Gpssta |-> IF "gpssta" \in DOMAIN res THEN AssertUint8(res["gpssta"]) ELSE 0,
     Posslnum |-> IF "posslnum" \in DOMAIN res THEN AssertUint8(res["posslnum"]) ELSE 0,
     Fixmode |-> IF "fixmode" \in DOMAIN res THEN AssertUint8(res["fixmode"]) ELSE 0,
     Pdop |-> IF "pdop" \in DOMAIN res THEN FloatField(res["pdop"]) ELSE FloatZero,
     Hdop |-> IF "hdop" \in DOMAIN res THEN FloatField(res["hdop"]) ELSE FloatZero,
     Vdop |-> IF "vdop" \in DOMAIN res THEN FloatField(res["vdop"]) ELSE FloatZero,
     Altitude |-> IF "altitude" \in DOMAIN res THEN FloatField(res["altitude"]) ELSE FloatZero,
     Speed |-> IF "speed" \in DOMAIN res THEN FloatField(res["speed"]) ELSE FloatZero,
     Utc |-> DecodeUtc(res),
     Slmsg |-> DecodeSlmsg(res),
     BeidouSlmsg |-> DecodeBeidouSlmsg(res),
     Possl |-> DecodePossl(res)]

\* an index-out-of-range panic inside getGnssData
Panicked(d) ==
    d.Slmsg = IndexPanic \/ d.BeidouSlmsg = IndexPanic \/ d.Possl = IndexPanic

\* json.Marshal(data) fails exactly on a float64 that is NaN or an infinity
MarshalFails(d) ==
    \E f \in {d.Latitude, d.Longitude, d.Pdop, d.Hdop, d.Vdop, d.Altitude, d.Speed} :
        ~IsFinite(f)

---------------------------------------------------------------------------
(* Inputs *)

\* integers within SampleSpan of the boundaries of the 8-, 16- and 32-bit types
Int32Vals ==
    UNION {(c - SampleSpan)..(c + SampleSpan) :
              c \in {0 - 32768, 0 - 256, 0 - 128, 0, 5, 128, 256, 2024, 32768, 65536}}
    \cup {(0 - 2147483647) - 1 + d : d \in 0..SampleSpan}
    \cup {2147483647 - d : d \in 0..SampleSpan}

\* high words of the sampled 64-bit values
HighWords == {0 - 1, 0, 1, (0 - 2147483647) - 1, 2147483647}

Wide(t) == {[type |-> t, v |-> Enc(lo, 4) \o Enc(hi, 4)] :
               lo \in Int32Vals, hi \in HighWords}

IntValues ==
    {MkInt("int8", n) : n \in Int32Vals \cap ((0 - 128)..127)}
    \cup {MkInt("uint8", n) : n \in Int32Vals \cap (0..255)}
    \cup {MkInt("int16", n) : n \in Int32Vals \cap ((0 - 32768)..32767)}
    \cup {MkInt("uint16", n) : n \in Int32Vals \cap (0..65535)}
    \cup {MkInt("int32", n) : n \in Int32Vals}
    \cup {MkInt("uint32", n) : n \in Int32Vals}
    \cup Wide("int") \cup Wide("uint") \cup Wide("int64") \cup Wide("uint64")

FloatValues ==
    {[type |-> "float64", v |-> f] :
        f \in {FloatZero, Norm(1234, 0 - 2), Norm(515, 0 - 1), Norm(0 - 12, 0 - 2),
               NaN, PosInf, NegInf}}

StringValues ==
    {[type |-> "string", v |-> str] :
        str \in {<<>>, <<"1", "2", ".", "3", "4">>, <<"5", "1", ".", "5">>,
                 <<"-", "0", ".", "1", "2">>, <<"+", "7">>, <<"5", ".">>, <<".", "5">>,
                 <<".">>, <<"-">>, <<"1", ".", "2", ".", "3">>, <<"a", "b", "c">>,
                 <<"N">>, <<"W">>, <<"N", "a", "N">>, <<"-", "I", "n", "f">>}}

OtherValues ==
    {[type |-> "nil", v |-> <<>>], [type |-> "bool", v |-> <<1>>],
     [type |-> "[]any", v |-> <<>>],
     [type |-> "[]any", v |-> <<MkInt("int32", 5)>>],
     [type |-> "[][]any", v |-> << <<MkInt("int32", 5)>> >>]}

\* the values handed to the converters
ConvInputs == IntValues \cup FloatValues \cup StringValues \cup OtherValues

\* one well-formed satellite tuple, different at every index, in mixed types
SatRow(i) ==
    <<MkInt("int32", i), MkInt("uint8", 10 + i), MkInt("uint32", 300 + i),
      MkInt("int", 200 + i)>>

\* a tuple of the wrong length
BadRow(len) == [j \in 1..len |-> MkInt("int32", 99)]

\* n satellite tuples of which those at p and q have length len
SatRows(n, p, q, len) ==
    [type |-> "[][]any",
     v |-> [i \in 1..n |-> IF i \in {p, q} THEN BadRow(len) ELSE SatRow(i)]]

MaxSrcLen == MaxSatelliteCount + ExtraLen

SlmsgReplies ==
    {(key :> SatRows(n, p, q, len)) :
        key \in {"slmsg", "beidou_slmsg"}, n \in 0..MaxSrcLen,
        p \in {0, 1, 2, MaxSatelliteCount}, q \in {0, 3, MaxSatelliteCount + 1},
        len \in {0, 3, 5}}
    \cup {("slmsg" :> SatRows(n, 0, 0, 0) @@ "beidou_slmsg" :> SatRows(m, 1, 0, 3)) :
             n \in {3, MaxSrcLen}, m \in {0, 2, MaxSrcLen}}
    \cup {(key :> [type |-> "[]any", v |-> SatRow(1)]) : key \in {"slmsg", "beidou_slmsg"}}

UtcSamples ==
    {<<2024, 6, 15, 10, 30, 0>>, <<2025, 12, 31, 23, 59, 58>>, <<70000, 200, 1, 1, 1, 255>>}

UtcReplies ==
    {("utc" :> [type |-> "[]any",
                v |-> [i \in 1..n |-> MkInt(t, IF i <= 6 THEN u[i] ELSE i)]]) :
        n \in 0..(6 + ExtraLen), t \in {"int32", "uint32", "int", "int64"},
        u \in UtcSamples}
    \cup {("utc" :> [type |-> "[][]any", v |-> <<SatRow(1)>>]),
          ("utc" :> [type |-> "string", v |-> <<"2", "0", "2", "4">>])}

PosslReplies ==
    {("possl" :> [type |-> "[]any", v |-> [i \in 1..n |-> MkInt(t, 250 + i)]]) :
        n \in 0..MaxSrcLen, t \in {"int32", "uint32", "int64"}}
    \cup {("possl" :> [type |-> "[]any", v |-> [i \in 1..n |-> MkInt("uint8", i)]]) :
             n \in 0..MaxSrcLen}
    \cup {("possl" :> SatRows(2, 0, 0, 0))}

ScalarKeys ==
    {"valid", "last_lock_time_ms", "svnum", "beidou_svnum", "nshemi", "ewhemi",
     "latitude", "longitude", "gpssta", "posslnum", "fixmode", "pdop", "hdop",
     "vdop", "altitude", "speed"}

ScalarValues ==
    {MkInt("int32", 1), MkInt("int32", 5), MkInt("uint8", 5), MkInt("uint8", 200),
     MkInt("uint32", 5), MkInt("int64", 5), MkInt("uint64", 86400000), MkInt("int8", 0 - 1)}
    \cup FloatValues
    \cup {[type |-> "string", v |-> str] :
             str \in {<<"1", "2", ".", "3", "4">>, <<"N">>, <<"W">>, <<"a", "b", "c">>,
                      <<"N", "a", "N">>}}

ScalarReplies == {(key :> val) : key \in ScalarKeys, val \in ScalarValues}

EmptyReply == [key \in {} |-> 0]

\* valid=1, latitude=51.5, longitude=-0.12 and three satellite tuples
FixReply ==
    ("valid" :> MkInt("int32", 1) @@ "last_lock_time_ms" :> MkInt("uint64", 1500)
     @@ "svnum" :> MkInt("uint8", 3) @@ "nshemi" :> [type |-> "string", v |-> <<"N">>]
     @@ "ewhemi" :> [type |-> "string", v |-> <<"W">>]
     @@ "latitude" :> [type |-> "float64", v |-> Norm(515, 0 - 1)]
     @@ "longitude" :> [type |-> "string", v |-> <<"-", "0", ".", "1", "2">>]
     @@ "utc" :> [type |-> "[]any", v |-> [i \in 1..6 |-> MkInt("int32", <<2024, 6, 15, 10, 30, 0>>[i])]]
     @@ "slmsg" :> SatRows(3, 0, 0, 0))

\* the replies the decoder is run on
RawRecords ==
    SlmsgReplies \cup UtcReplies \cup PosslReplies \cup ScalarReplies
    \cup {EmptyReply, FixReply}

\* the replies the positioning service gives the loop
LoopReplies ==
    {EmptyReply, FixReply, ("latitude" :> [type |-> "string", v |-> <<"N", "a", "N">>]),
     ("svnum" :> MkInt("int32", 5)), ("slmsg" :> SatRows(MaxSrcLen, 2, 0, 3))}

---------------------------------------------------------------------------
(* main: the signal goroutine, the ticker and the select loop *)

NilData == [nil |-> TRUE]

NoOutput == [done |-> FALSE, i8 |-> 0, i32 |-> 0, u8 |-> 0, f |-> [val |-> FloatZero, err |-> FALSE]]

Running == pc \notin {"done", "panicked"}

\* main has reached its for loop: connected, ticker started, nothing logged yet
LoopInit ==
    /\ pc = "select"
    /\ sigpc = "wait"
    /\ sigChan = 0
    /\ cancelled = FALSE
    /\ tickerC = 0
    /\ result = EmptyReply
    /\ data = NilData
    /\ lastLog = "Connected to MQTT broker"
    /\ failLogs = 0
    /\ dbusCalls = 0
    /\ publishCalls = 0
    /\ disconnects = 0

Init ==
    /\ LoopInit
    /\ cin = [type |-> "nil", v |-> <<>>]
    /\ cout = NoOutput

\* the OS delivers SIGINT or SIGTERM: a non-blocking send on sigChan
Signal ==
    /\ Running
    /\ sigChan = 0
    /\ sigChan' = 1
    /\ UNCHANGED <<pc, sigpc, cancelled, tickerC, result, data, lastLog, failLogs,
                   dbusCalls, publishCalls, disconnects, cin, cout>>

\* <-sigChan in the goroutine
SigRecv ==
    /\ Running
    /\ sigpc = "wait"
    /\ sigChan = 1
    /\ sigChan' = 0
    /\ sigpc' = "cancel"
    /\ UNCHANGED <<pc, cancelled, tickerC, result, data, lastLog, failLogs,
                   dbusCalls, publishCalls, disconnects, cin, cout>>

\* cancel() in the goroutine
SigCancel ==
    /\ Running
    /\ sigpc = "cancel"
    /\ cancelled' = TRUE
    /\ sigpc' = "exit"
    /\ UNCHANGED <<pc, sigChan, tickerC, result, data, lastLog, failLogs,
                   dbusCalls, publishCalls, disconnects, cin, cout>>

\* ten seconds have passed: the runtime's non-blocking send on ticker.C
TickerFire ==
    /\ Running
    /\ tickerC = 0
    /\ tickerC' = 1
    /\ UNCHANGED <<pc, sigpc, sigChan, cancelled, result, data, lastLog, failLogs,
                   dbusCalls, publishCalls, disconnects, cin, cout>>

\* a cancellation that is also honoured while a call or a publish is in flight
SelectDone_Preempt ==
    /\ pc \in {"select", "acquiring", "publishing"}
    /\ cancelled
    /\ lastLog' = "Shutting down gracefully..."
    /\ pc' = "shutting_down"
    /\ UNCHANGED <<sigpc, sigChan, cancelled, tickerC, result, data, failLogs,
                   dbusCalls, publishCalls, disconnects, cin, cout>>

\* select takes case <-ctx.Done()
SelectDone ==
    /\ pc = "select"
    /\ cancelled
    /\ lastLog' = "Shutting down gracefully..."
    /\ pc' = "shutting_down"
    /\ UNCHANGED <<sigpc, sigChan, cancelled, tickerC, result, data, failLogs,
                   dbusCalls, publishCalls, disconnects, cin, cout>>

\* client.Disconnect(250); return
Disconnect ==
    /\ pc = "shutting_down"
    /\ disconnects' = disconnects + 1
    /\ cancelled' = TRUE
    /\ pc' = "done"
    /\ UNCHANGED <<sigpc, sigChan, tickerC, result, data, lastLog, failLogs,
                   dbusCalls, publishCalls, cin, cout>>

\* select takes case <-ticker.C and getGnssData issues the GetGnss call;
\* Go's select chooses among its ready cases at random
SelectTick ==
    /\ pc = "select"
    /\ tickerC = 1
    /\ tickerC' = 0
    /\ result' = EmptyReply
    /\ data' = NilData
    /\ failLogs' = 0
    /\ publishCalls' = 0
    /\ dbusCalls' = 1
    /\ pc' = "acquiring"
    /\ UNCHANGED <<sigpc, sigChan, cancelled, lastLog, disconnects, cin, cout>>

\* an acquisition failure handled with log.Fatalf
AcquireFail_Fatal ==
    /\ pc = "acquiring"
    /\ lastLog' = "Failed to get GNSS data"
    /\ failLogs' = failLogs + 1
    /\ pc' = "done"
    /\ UNCHANGED <<sigpc, sigChan, cancelled, tickerC, result, data, dbusCalls,
                   publishCalls, disconnects, cin, cout>>

\* the call returns an error: getGnssData returns nil, err; logged; continue
AcquireFail ==
    /\ pc = "acquiring"
    /\ lastLog' = "Failed to get GNSS data"
    /\ failLogs' = failLogs + 1
    /\ pc' = "select"
    /\ UNCHANGED <<sigpc, sigChan, cancelled, tickerC, result, data, dbusCalls,
                   publishCalls, disconnects, cin, cout>>

\* the call returns a reply, stored in result
AcquireReply ==
    /\ pc = "acquiring"
    /\ \E raw \in LoopReplies : result' = raw
    /\ pc' = "decoding"
    /\ UNCHANGED <<sigpc, sigChan, cancelled, tickerC, data, lastLog, failLogs,
                   dbusCalls, publishCalls, disconnects, cin, cout>>

\* the rest of getGnssData: data is filled from result and returned
Decode ==
    /\ pc = "decoding"
    /\ data' = DecodeReply(result)
    /\ pc' = IF Panicked(data') THEN "panicked" ELSE "marshal"
    /\ UNCHANGED <<sigpc, sigChan, cancelled, tickerC, result, lastLog, failLogs,
                   dbusCalls, publishCalls, disconnects, cin, cout>>

\* if data != nil { payload, err := json.Marshal(data) ... client.Publish(...) }
Marshal ==
    /\ pc = "marshal"
    /\ IF data = NilData
       THEN pc' = "select" /\ UNCHANGED <<lastLog, failLogs, publishCalls>>
       ELSE IF MarshalFails(data)
            THEN /\ lastLog' = "Failed to marshal GNSS data"
                 /\ failLogs' = failLogs + 1
                 /\ pc' = "select"
                 /\ UNCHANGED publishCalls
            ELSE /\ publishCalls' = publishCalls + 1
                 /\ pc' = "publishing"
                 /\ UNCHANGED <<lastLog, failLogs>>
    /\ UNCHANGED <<sigpc, sigChan, cancelled, tickerC, result, data, dbusCalls,
                   disconnects, cin, cout>>

\* a failed publish that is published again at once
PublishError_Retry ==
    /\ pc = "publishing"
    /\ lastLog' = "Failed to publish GNSS data"
    /\ failLogs' = failLogs + 1
    /\ publishCalls' = publishCalls + 1
    /\ pc' = "publishing"
    /\ UNCHANGED <<sigpc, sigChan, cancelled, tickerC, result, data, dbusCalls,
                   disconnects, cin, cout>>

\* token.Wait() returns with token.Error() != nil
PublishError ==
    /\ pc = "publishing"
    /\ lastLog' = "Failed to publish GNSS data"
    /\ failLogs' = failLogs + 1
    /\ pc' = "select"
    /\ UNCHANGED <<sigpc, sigChan, cancelled, tickerC, result, data, dbusCalls,
                   publishCalls, disconnects, cin, cout>>

\* token.Wait() returns with token.Error() == nil
PublishAck ==
    /\ pc = "publishing"
    /\ lastLog' = "Published full GNSS data to MQTT"
    /\ pc' = "select"
    /\ UNCHANGED <<sigpc, sigChan, cancelled, tickerC, result, data, failLogs,
                   dbusCalls, publishCalls, disconnects, cin, cout>>

Next ==
    \/ Signal
    \/ SigRecv
    \/ SigCancel
    \/ TickerFire
    \/ SelectDone
    \/ Disconnect
    \/ SelectTick
    \/ AcquireFail
    \/ AcquireReply
    \/ Decode
    \/ Marshal
    \/ PublishError
    \/ PublishAck

Spec == Init /\ [][Next]_vars

---------------------------------------------------------------------------
(* The decoder run on every sampled reply *)

\* getGnssData at the point where the call has stored its reply
InitDecode ==
    /\ pc = "decoding"
    /\ sigpc = "wait"
    /\ sigChan = 0
    /\ cancelled = FALSE
    /\ tickerC = 0
    /\ result \in RawRecords
    /\ data = NilData
    /\ lastLog = "Connected to MQTT broker"
    /\ failLogs = 0
    /\ dbusCalls = 1
    /\ publishCalls = 0
    /\ disconnects = 0
    /\ cin = [type |-> "nil", v |-> <<>>]
    /\ cout = NoOutput

NextDecode == Decode

SpecDecode == InitDecode /\ [][NextDecode]_vars

---------------------------------------------------------------------------
(* The converters run on every sampled value *)

InitConv ==
    /\ LoopInit
    /\ cin \in ConvInputs
    /\ cout = NoOutput

Convert ==
    /\ ~cout.done
    /\ cout' = [done |-> TRUE, i8 |-> ToInt8(cin), i32 |-> ToInt32(cin),
                u8 |-> ToUint8(cin), f |-> ParseFloatVariant(cin)]
    /\ UNCHANGED <<pc, sigpc, sigChan, cancelled, tickerC, result, data, lastLog,
                   failLogs, dbusCalls, publishCalls, disconnects, cin>>

NextConv == Convert

SpecConv == InitConv /\ [][NextConv]_vars

---------------------------------------------------------------------------
(* Claims about the converters (SpecConv) *)

IntRecognised == {"int8", "uint8", "int32", "uint32", "int", "uint"}

FloatRecognised == {"float64", "string", "int32"}

\* C5: an input of a type the converter does not recognise gives 0 from ToInt8,
\* ToInt32 and ToUint8, and an error result from ParseFloatVariant; every input
\* gets a result from all four.
C5_UnrecognisedAsymmetric ==
    cout.done =>
        /\ cin.type \notin IntRecognised =>
               cout.i8 = 0 /\ cout.i32 = 0 /\ cout.u8 = 0
        /\ cin.type \notin FloatRecognised =>
               cout.f.err /\ cout.f.val = FloatZero
        /\ cin.type = "float64" => ~cout.f.err

\* an int64 holding a non-zero value went through all four converters
C5_Witness ==
    /\ cout.done
    /\ cin = MkInt("int64", 5)
    /\ cout.i8 = 0 /\ cout.i32 = 0 /\ cout.u8 = 0
    /\ cout.f.err

\* r, read at the width of the narrower of source and target, has the bits of val
SameLowBits(val, w, r) ==
    LET k == Min(w, Len(val.v)) IN Enc(r, k) = SubSeq(val.v, 1, k)

\* r is val reduced modulo 2^(8w) and read in a target with range lo..hi; when
\* the target is wider than the source, r is the source's value itself
WrapsTo(val, w, lo, hi, r) ==
    /\ lo <= r /\ r <= hi
    /\ SameLowBits(val, w, r)
    /\ Len(val.v) < w =>
           IF IsSigned(val.type) THEN (0 - 128) <= r /\ r <= 127
           ELSE 0 <= r /\ r <= 255

\* val is the value n of its own type
Holds(val, n) ==
    /\ val = MkInt(val.type, n)
    /\ IsSigned(val.type) \/ n >= 0
    /\ Width(val.type) = 1 =>
           IF IsSigned(val.type) THEN (0 - 128) <= n /\ n <= 127 ELSE n <= 255

\* C10: on a recognised integer type each integer converter returns the input
\* reduced modulo 2^w read in the target type (two's complement for int8 and
\* int32, unsigned for uint8): in-range values come back unchanged, out-of-range
\* values wrap.
C10_ConvertByValueWraps ==
    (cout.done /\ cin.type \in IntRecognised) =>
        /\ WrapsTo(cin, 1, 0 - 128, 127, cout.i8)
        /\ WrapsTo(cin, 4, (0 - 2147483647) - 1, 2147483647, cout.i32)
        /\ WrapsTo(cin, 1, 0, 255, cout.u8)
        /\ \A n \in Int32Vals :
               Holds(cin, n) =>
                   /\ cout.i32 = n
                   /\ ((0 - 128) <= n /\ n <= 127) => cout.i8 = n
                   /\ (0 <= n /\ n <= 255) => cout.u8 = n
                   /\ cout.i8 = (((n % 256) + 128) % 256) - 128
                   /\ cout.u8 = n % 256

\* a uint32 above the int32 range went through the converters and wrapped
C10_Witness ==
    /\ cout.done
    /\ cin = [type |-> "uint32", v |-> <<255, 255, 255, 255>>]
    /\ cout.i32 = 0 - 1
    /\ cout.u8 = 255
    /\ cout.i8 = 0 - 1

---------------------------------------------------------------------------
(* Claims about the decoder (SpecDecode) *)

Decoded == pc \in {"marshal", "panicked"}

\* the rows of a satellite key, <<>> when the key is absent or not a [][]any
Rows(res, key) ==
    IF key \in DOMAIN res /\ res[key].type = "[][]any" THEN res[key].v ELSE <<>>

\* the elements of a flat key, <<>> when the key is absent or not a []any
Elems(res, key) ==
    IF key \in DOMAIN res /\ res[key].type = "[]any" THEN res[key].v ELSE <<>>

\* C1: Slmsg, BeidouSlmsg and Possl always have exactly MaxSatelliteCount (12)
\* slots; slots at and beyond the source length stay zero; of a longer source
\* the first 12 entries are used and the rest ignored, with no store out of range.
C1_TwelveSlots ==
    Decoded =>
        /\ Len(data.Slmsg) = MaxSatelliteCount
        /\ Len(data.BeidouSlmsg) = MaxSatelliteCount
        /\ Len(data.Possl) = MaxSatelliteCount
        /\ pc # "panicked"
        /\ \A i \in 1..MaxSatelliteCount :
               /\ i > Len(Rows(result, "slmsg")) => data.Slmsg[i] = NmeaSatelliteMsg
               /\ i > Len(Rows(result, "beidou_slmsg")) =>
                      data.BeidouSlmsg[i] = BeidouNmeaSatelliteMsg
               /\ i > Len(Elems(result, "possl")) => data.Possl[i] = 0
               /\ (i <= Len(Rows(result, "slmsg")) /\ Rows(result, "slmsg")[i] = SatRow(i)) =>
                      data.Slmsg[i].Num = i
               /\ (i <= Len(Rows(result, "beidou_slmsg"))
                   /\ Rows(result, "beidou_slmsg")[i] = SatRow(i)) =>
                      data.BeidouSlmsg[i].BeidouNum = i
               /\ i <= Len(Elems(result, "possl")) =>
                      data.Possl[i] = ToUint8(Elems(result, "possl")[i])

\* a source of more than 12 tuples next to one of 2 tuples has been decoded
C1_Witness ==
    /\ pc = "marshal"
    /\ Len(Rows(result, "slmsg")) > MaxSatelliteCount
    /\ Len(Rows(result, "beidou_slmsg")) = 2
    /\ data.Slmsg[MaxSatelliteCount].Num = MaxSatelliteCount
    /\ data.BeidouSlmsg[2].BeidouNum = 2
    /\ data.BeidouSlmsg[3] = BeidouNmeaSatelliteMsg

IntScalarFields ==
    [svnum |-> "Svnum", beidou_svnum |-> "BeidouSvnum", gpssta |-> "Gpssta",
     posslnum |-> "Posslnum", fixmode |-> "Fixmode"]

FloatScalarFields ==
    [latitude |-> "Latitude", longitude |-> "Longitude", pdop |-> "Pdop",
     hdop |-> "Hdop", vdop |-> "Vdop", altitude |-> "Altitude", speed |-> "Speed"]

\* C4: every scalar key present in the reply is decoded to the result of its
\* coercion converter (ToInt32 for valid, ToUint8 for the 8-bit keys,
\* ParseFloatVariant for the float keys), so svnum delivered as int32(5) is 5.
C4_ScalarsCoerced ==
    Decoded =>
        /\ "valid" \in DOMAIN result => data.Valid = ToInt32(result["valid"])
        /\ \A key \in DOMAIN IntScalarFields \cap DOMAIN result :
               data[IntScalarFields[key]] = ToUint8(result[key])
        /\ \A key \in DOMAIN FloatScalarFields \cap DOMAIN result :
               data[FloatScalarFields[key]] = ParseFloatVariant(result[key]).val

\* C6: for slmsg and beidou_slmsg and every index below min(source length, 12),
\* a tuple of exactly 4 elements fills its own slot with catalog number,
\* elevation, azimuth and signal-to-noise coerced in that order, a tuple of any
\* other length leaves its slot zero, and later valid tuples keep their index.
C6_SatelliteSlots ==
    Decoded =>
        \A i \in 1..MaxSatelliteCount :
            /\ i <= Len(Rows(result, "slmsg")) =>
                   LET row == Rows(result, "slmsg")[i]
                   IN  /\ Len(row) = 4 =>
                              data.Slmsg[i] = [Num |-> ToInt8(row[1]), Eledeg |-> ToInt8(row[2]),
                                               Azideg |-> ToInt32(row[3]), SN |-> ToInt8(row[4])]
                       /\ Len(row) # 4 => data.Slmsg[i] = NmeaSatelliteMsg
                       /\ row = SatRow(i) =>
                              data.Slmsg[i] = [Num |-> i, Eledeg |-> 10 + i,
                                               Azideg |-> 300 + i, SN |-> i - 56]
            /\ i <= Len(Rows(result, "beidou_slmsg")) =>
                   LET row == Rows(result, "beidou_slmsg")[i]
                   IN  /\ Len(row) = 4 =>
                              data.BeidouSlmsg[i] =
                                  [BeidouNum |-> ToInt8(row[1]), BeidouEledeg |-> ToInt8(row[2]),
                                   BeidouAzideg |-> ToInt32(row[3]), BeidouSN |-> ToInt8(row[4])]
                       /\ Len(row) # 4 => data.BeidouSlmsg[i] = BeidouNmeaSatelliteMsg
                       /\ row = SatRow(i) =>
                              data.BeidouSlmsg[i] =
                                  [BeidouNum |-> i, BeidouEledeg |-> 10 + i,
                                   BeidouAzideg |-> 300 + i, BeidouSN |-> i - 56]

\* a malformed tuple at index 1 between valid tuples at indices 0 and 2
C6_Witness ==
    /\ pc = "marshal"
    /\ Len(Rows(result, "slmsg")) >= 3
    /\ Len(Rows(result, "slmsg")[2]) = 3
    /\ data.Slmsg[1].Num = 1
    /\ data.Slmsg[2] = NmeaSatelliteMsg
    /\ data.Slmsg[3] = [Num |-> 3, Eledeg |-> 13, Azideg |-> 303, SN |-> 0 - 53]

\* C7: Utc is filled all or nothing: from a utc sequence of exactly 6 elements
\* its fields are the coercions of elements 0..5 in order (the example
\* [2024,6,15,10,30,0] gives {2024,6,15,10,30,0}); for any other length, or no
\* utc key, every field of Utc is 0.
C7_UtcAllOrNothing ==
    Decoded =>
        LET utcArr == Elems(result, "utc")
        IN  /\ Len(utcArr) = 6 =>
                   data.Utc = [Year |-> ToInt32(utcArr[1]), Month |-> ToInt8(utcArr[2]),
                               Date |-> ToInt8(utcArr[3]), Hour |-> ToInt8(utcArr[4]),
                               Min |-> ToInt8(utcArr[5]), Sec |-> ToInt8(utcArr[6])]
            /\ Len(utcArr) # 6 => data.Utc = NmeaUtcTime
            /\ utcArr = [i \in 1..6 |-> MkInt("int32", <<2024, 6, 15, 10, 30, 0>>[i])] =>
                   data.Utc = [Year |-> 2024, Month |-> 6, Date |-> 15,
                               Hour |-> 10, Min |-> 30, Sec |-> 0]

\* the example sequence has been decoded
C7_Witness ==
    /\ pc = "marshal"
    /\ Elems(result, "utc") = [i \in 1..6 |-> MkInt("int32", <<2024, 6, 15, 10, 30, 0>>[i])]
    /\ data.Utc.Year = 2024
    /\ data.Utc.Min = 30

---------------------------------------------------------------------------
(* Claims about the loop (Spec) *)

FailureLines ==
    {"Failed to get GNSS data", "Failed to marshal GNSS data", "Failed to publish GNSS data"}

InTick == {"acquiring", "decoding", "marshal", "publishing"}

\* a step in which the loop logs a failure
LogsFailure == failLogs' # failLogs /\ pc' # "acquiring"

C2_State ==
    /\ failLogs <= 1
    /\ failLogs = 1 => pc \notin InTick
    /\ (failLogs = 1 /\ lastLog \in {"Failed to get GNSS data", "Failed to marshal GNSS data"}) =>
           publishCalls = 0
    /\ (failLogs = 1 /\ lastLog = "Failed to publish GNSS data") => publishCalls = 1
    /\ pc # "panicked"
    /\ (pc = "select" /\ tickerC = 1) => ENABLED SelectTick

C2_Step ==
    /\ LogsFailure =>
           /\ failLogs = 0 /\ failLogs' = 1
           /\ lastLog' \in FailureLines
           /\ publishCalls' = publishCalls
           /\ pc \in InTick /\ pc' = "select"
    /\ (pc \in InTick /\ pc' \notin InTick) => pc' = "select"
    /\ (pc' = "shutting_down" /\ pc # "shutting_down") => cancelled
    /\ (pc' = "done" /\ pc # "done") => pc = "shutting_down"

\* C2: an acquisition, serialization or publish failure is logged exactly once
\* for its tick, is followed by no publish in that tick, and returns the loop
\* to its select, where later ticks are taken; the loop ends only through the
\* cancellation case of the select.
C2_FailuresContained == []C2_State /\ [][C2_Step]_vars

\* after a failed publish the loop has taken the next tick
C2_Witness ==
    /\ pc = "acquiring"
    /\ lastLog = "Failed to publish GNSS data"
    /\ failLogs = 0

\* C3: once cancel() has been called the loop starts no further tick: with the
\* context cancelled the select never takes the ticker case, so no acquisition
\* call (and with it no publish) of a further tick begins.
C3_NoTickAfterCancel ==
    [][cancelled => ~(pc = "select" /\ pc' = "acquiring")]_vars

C8_State ==
    /\ dbusCalls <= 1
    /\ publishCalls <= 1
    /\ pc \in InTick => dbusCalls = 1
    /\ pc \in {"acquiring", "decoding", "marshal"} => publishCalls = 0
    /\ pc = "publishing" =>
           /\ publishCalls = 1
           /\ failLogs = 0
           /\ data # NilData
           /\ data = DecodeReply(result)
           /\ result \in LoopReplies

C8_Step ==
    /\ (pc' = "acquiring" /\ pc # "acquiring") => pc = "select"
    /\ (pc' = "decoding" /\ pc # "decoding") => pc = "acquiring"
    /\ (pc' = "marshal" /\ pc # "marshal") => pc = "decoding"
    /\ (pc' = "publishing" /\ pc # "publishing") => pc = "marshal"
    /\ dbusCalls' # dbusCalls => pc = "select"
    /\ publishCalls' > publishCalls => pc = "marshal"

\* C8: in a tick a publish is attempted only after that tick's acquisition has
\* succeeded and its reply has been decoded; a tick makes at most one
\* acquisition call and at most one publish call; and a tick's acquisition
\* begins only when the previous tick's sequence has finished.
C8_TickOrdering == []C8_State /\ [][C8_Step]_vars

\* a second tick has reached its publish after the first one published
C8_Witness ==
    /\ pc = "publishing"
    /\ publishCalls = 1
    /\ lastLog = "Published full GNSS data to MQTT"
    /\ result = FixReply

C9_State ==
    /\ disconnects <= 1
    /\ (pc = "done") <=> (disconnects = 1)
    /\ pc \in {"shutting_down", "done"} => cancelled

C9_Step ==
    /\ (pc' = "shutting_down" /\ pc # "shutting_down") => (pc = "select" /\ cancelled)
    /\ pc \in InTick => pc' \in InTick \cup {"select"}
    /\ disconnects' # disconnects =>
           (pc = "shutting_down" /\ disconnects = 0 /\ disconnects' = 1)
    /\ disconnects = 1 =>
           (publishCalls' = publishCalls /\ dbusCalls' = dbusCalls /\ pc' = "done")

\* C9: the loop leaves for shutdown only from its select; a cancellation that
\* arrives during an acquisition or a publish lets it run to completion;
\* Disconnect is called with no acquisition or publish in progress, exactly
\* once on shutdown, and nothing is published after it.
C9_ShutdownFromIdle == []C9_State /\ [][C9_Step]_vars

\* the loop has shut down after a tick that published while cancelled
C9_Witness ==
    /\ pc = "done"
    /\ disconnects = 1
    /\ publishCalls = 1
    /\ failLogs = 0
    /\ sigpc = "exit"

====
